---- MODULE Spec2Model ----
(***************************************************************************)
(* Memory_Api: the tenant-isolated knowledge service                      *)
(* (GraphitiKnowledgeGraph), the query and export handlers that use it,   *)
(* and the rate-limit retry wrapper around the language model (GroqSafeLM).*)
(*                                                                         *)
(* Every request handler is a coroutine on one event loop.  An action is   *)
(* the code a handler runs between two suspension points (awaits); the     *)
(* graph engine and the language-model provider are external, so each of   *)
(* their calls completes with an outcome chosen nondeterministically.      *)
(* Strings that the code builds or tests by prefix (user ids, categories,  *)
(* namespaces) are sequences of one-character strings.                     *)
(***************************************************************************)
EXTENDS Integers, Sequences, FiniteSets, TLC

\* ---------------------------------------------------------------- bounds
MaxRequests   == 3      \* cap on the requests the tasks take in one run
MaxEntities   == 2      \* cap on Entity nodes the engine holds
MaxRels       == 1      \* cap on relationships the engine holds
MaxFacts      == 2      \* cap on the edges one relevance search returns
MaxTextLen    == 4      \* longest raw model output given to _clean_response
MaxIdLen      == 2      \* longest user id or category in a key derivation

\* ------------------------------------------------------ program constants
retries       == 5      \* GroqSafeLM.__call__: retries = 5
InitialDelay  == 2      \* GroqSafeLM.__call__: delay = 2

\* ---------------------------------------------------------------- inputs
Tasks      == {"t1", "t2"}
NoTask     == "none"
UserIds    == { <<"1">>, <<"1", "_", "2">> }
Categories == { <<"a">>, <<"b">> }
NoCategory == << >>                 \* category omitted (None, falsy in Python)
Names      == {"", "Bob"}           \* n.name of an entity; "" is falsy
Statements == {"", "Paris"}         \* edge.fact of a relationship

VARIABLES
    indices_built,  \* GraphitiKnowledgeGraph._indices_built
    buildCalls,     \* how often client.build_indices_and_constraints was invoked
    requests,       \* how many requests have been taken so far
    episodes,       \* engine: group_id values carried by Episodic nodes
    entities,       \* engine: Entity nodes, entities[i] = [group_id, name]
    rels,           \* engine: relationships <<s, t>> between Entity nodes
    creators,       \* history: <<user_id, group_id>> of every successful ingestion
    pc,             \* per task: where the handler is suspended
    req,            \* per task: the request [op, user_id, category]
    group_ids,      \* per task: search_knowledge's local group_ids
    searchCalls,    \* per task: client.search calls made for this request
    nodes,          \* per task: get_graph_visualization's local nodes
    response,       \* the request that is completing and what its handler returns or raises
    search_result,  \* query_rag: local search_result while the model is called
    context_str,    \* query_rag: local context_str while the model is called
    loop,           \* the task running synchronous code on the event loop
    attempt,        \* GroqSafeLM.__call__: loop variable attempt
    delay,          \* GroqSafeLM.__call__: local delay
    lmCalls,        \* upstream super().__call__ invocations of this wrapper call
    sleeps,         \* the time.sleep arguments of this wrapper call, in order
    outcomes,       \* the upstream outcomes of this wrapper call, in order
    lmResult,       \* how the wrapper call ended
    raw,            \* GraphRAGModule._clean_response: the argument it was called with
    text,           \* GraphRAGModule._clean_response: local text
    cleanPc,        \* GraphRAGModule._clean_response: the statement to run next
    pairs,          \* the two (user_id, category) pairs whose keys are derived
    derived         \* per derivation site: the keys it built for the two pairs

kgVars  == <<indices_built, buildCalls, episodes, entities, rels, creators>>
reqVars == <<requests, pc, req, group_ids, searchCalls, nodes, response>>
lmVars  == <<search_result, context_str, attempt, delay, lmCalls, sleeps,
            outcomes, lmResult>>
svcVars == <<kgVars, reqVars, loop, lmVars>>
fnVars  == <<raw, text, cleanPc, pairs, derived>>
vars    == <<svcVars, fnVars>>

\* ------------------------------------------------------------ tenant keys
UserPrefixLiteral == <<"u", "s", "e", "r", "_">>

\* (mutant: the separator between user id and category is left out)
group_id_NoSeparator(user_id, category) ==
    UserPrefixLiteral \o user_id \o category

\* add_knowledge: group_id = f"user_{user_id}_{category}"
group_id(user_id, category) ==
    UserPrefixLiteral \o user_id \o <<"_">> \o category

\* search_knowledge: group_ids = [f"user_{user_id}_{category}"]
search_group_id(user_id, category) ==
    UserPrefixLiteral \o user_id \o <<"_">> \o category

\* get_graph_visualization: group_id = f"user_{user_id}_{category}"
export_group_id(user_id, category) ==
    UserPrefixLiteral \o user_id \o <<"_">> \o category

prefix(user_id) == UserPrefixLiteral \o user_id \o <<"_">>

StartsWith(s, p) == Len(s) >= Len(p) /\ SubSeq(s, 1, Len(p)) = p

Namespaces == { group_id(u, c) : u \in UserIds, c \in Categories }

\* MATCH (n) WHERE n.group_id STARTS WITH $prefix RETURN DISTINCT n.group_id
NodeGroupIds == episodes \cup { entities[i].group_id : i \in DOMAIN entities }

EnumerateGroupIds(user_id) ==
    { g \in NodeGroupIds : StartsWith(g, prefix(user_id)) }

\* ------------------------------------------------------------------ Init
NoRequest == [op |-> "none", user_id |-> << >>, category |-> << >>]
NoRecord  == [status |-> "none"]
NoResponse == [req |-> NoRequest, group_ids |-> {}, searchCalls |-> 0,
               engine |-> "none", result |-> NoRecord]

\* The three places that build a namespace key from a user and a category.
Sites == {"add_knowledge", "search_knowledge", "get_graph_visualization"}

ServiceInit ==
    /\ indices_built = FALSE
    /\ buildCalls = 0
    /\ episodes = {}
    /\ entities = << >>
    /\ rels = {}
    /\ creators = {}
    /\ requests = 0
    /\ pc = [t \in Tasks |-> "idle"]
    /\ req = [t \in Tasks |-> NoRequest]
    /\ group_ids = [t \in Tasks |-> {}]
    /\ searchCalls = [t \in Tasks |-> 0]
    /\ nodes = [t \in Tasks |-> {}]
    /\ response = NoResponse
    /\ loop = NoTask
    /\ search_result = NoRecord
    /\ context_str = ""
    /\ attempt = 0
    /\ delay = InitialDelay
    /\ lmCalls = 0
    /\ sleeps = << >>
    /\ outcomes = << >>
    /\ lmResult = "none"

\* The service as constructed: no _clean_response call is running and no
\* key derivation is under study.
Init ==
    /\ ServiceInit
    /\ raw = << >>
    /\ text = << >>
    /\ cleanPc = "off"
    /\ pairs = << >>
    /\ derived = [s \in Sites |-> << >>]

\* A task takes a new request when it has none in flight and the event loop
\* is not held by synchronous code.
CanBegin(t) ==
    /\ pc[t] = "idle" /\ loop = NoTask
    /\ requests < MaxRequests

\* The handler starts with fresh locals and runs to its first await.
Accept(t, op, u, c, where) ==
    /\ requests' = requests + 1
    /\ req' = [req EXCEPT ![t] = [op |-> op, user_id |-> u, category |-> c]]
    /\ pc' = [pc EXCEPT ![t] = where]

\* The handler ends (returns or raises): its locals are gone and the
\* response is on its way to the caller, synchronously.  engine tells how the
\* handler's client.search call, if it made one, ended.
FinishWith(t, res, engine) ==
    /\ response' = [req |-> req[t], group_ids |-> group_ids[t],
                    searchCalls |-> searchCalls[t], engine |-> engine, result |-> res]
    /\ pc' = [pc EXCEPT ![t] = "done"]
    /\ loop' = t
    /\ req' = [req EXCEPT ![t] = NoRequest]
    /\ group_ids' = [group_ids EXCEPT ![t] = {}]
    /\ searchCalls' = [searchCalls EXCEPT ![t] = 0]
    /\ nodes' = [nodes EXCEPT ![t] = {}]

Finish(t, res) == FinishWith(t, res, "none")

Raised(err) == [status |-> "raised", error |-> err]

\* The response has been handed over; the event loop runs the next callback.
Respond(t) ==
    /\ UNCHANGED fnVars
    /\ pc[t] = "done" /\ loop = t
    /\ pc' = [pc EXCEPT ![t] = "idle"]
    /\ loop' = NoTask
    /\ response' = NoResponse
    /\ UNCHANGED <<kgVars, requests, req, group_ids, searchCalls, nodes, lmVars>>

\* ------------------------------------------------------------ initialize
\* initialize(): the flag is tested, then build_indices_and_constraints is
\* awaited; the flag is set only after that await returns.
InitializeBegin(t) ==
    /\ UNCHANGED fnVars
    /\ CanBegin(t)
    /\ IF indices_built
         THEN /\ requests' = requests + 1
              /\ response' = [NoResponse EXCEPT !.req.op = "initialize",
                                                !.result = [status |-> "returned"]]
              /\ pc' = [pc EXCEPT ![t] = "done"]
              /\ loop' = t
              /\ UNCHANGED <<buildCalls, req>>
         ELSE /\ buildCalls' = buildCalls + 1
              /\ Accept(t, "initialize", << >>, << >>, "build")
              /\ UNCHANGED <<response, loop>>
    /\ UNCHANGED <<indices_built, episodes, entities, rels, creators, group_ids,
                   searchCalls, nodes, lmVars>>

\* add_knowledge(): `if not self._indices_built: await self.initialize()`
\* stands before the try block; with the flag set it goes straight to
\* client.add_episode.
AddKnowledgeBegin(t) ==
    /\ UNCHANGED fnVars
    /\ CanBegin(t)
    /\ \E u \in UserIds, c \in Categories :
         IF indices_built
           THEN /\ Accept(t, "add_knowledge", u, c, "episode")
                /\ UNCHANGED buildCalls
           ELSE /\ buildCalls' = buildCalls + 1
                /\ Accept(t, "add_knowledge", u, c, "build")
    /\ UNCHANGED <<indices_built, episodes, entities, rels, creators, group_ids,
                   searchCalls, nodes, response, loop, lmVars>>

\* build_indices_and_constraints returned: initialize sets the flag and
\* returns; add_knowledge goes on to submit the episode.
BuildOk(t) ==
    /\ UNCHANGED fnVars
    /\ pc[t] = "build" /\ loop = NoTask
    /\ indices_built' = TRUE
    /\ IF req[t].op = "initialize"
         THEN Finish(t, [status |-> "returned"])
         ELSE /\ pc' = [pc EXCEPT ![t] = "episode"]
              /\ UNCHANGED <<req, group_ids, searchCalls, nodes, response, loop>>
    /\ UNCHANGED <<buildCalls, episodes, entities, rels, creators, requests, lmVars>>

\* build_indices_and_constraints raised: nothing catches it, neither in
\* initialize nor in add_knowledge (the await is outside its try block).
BuildFail(t) ==
    /\ UNCHANGED fnVars
    /\ pc[t] = "build" /\ loop = NoTask
    /\ Finish(t, Raised("build_indices_and_constraints"))
    /\ UNCHANGED <<kgVars, requests, lmVars>>

\* What the engine may write for one episode: its Episodic node, at most one
\* new Entity node of that namespace, at most one new relationship between
\* two Entity nodes it holds.
EpisodeWrites(g) ==
    { w \in [ents : {entities} \cup
                    (IF Len(entities) < MaxEntities
                       THEN { Append(entities, [group_id |-> g, name |-> n]) : n \in Names }
                       ELSE {}),
             rel : {<< >>} \cup ((1..MaxEntities) \X (1..MaxEntities))] :
        w.rel # << >> =>
             /\ w.rel[1] \in DOMAIN w.ents /\ w.rel[2] \in DOMAIN w.ents
             /\ w.rel[1] # w.rel[2]
             /\ w.rel \notin rels
             /\ Cardinality(rels) < MaxRels }

AddKnowledgeResult(t, ok) ==
    IF ok
      THEN [status |-> "returned", success |-> TRUE, user_id |-> req[t].user_id,
            category |-> req[t].category,
            group_id |-> group_id(req[t].user_id, req[t].category)]
      ELSE [status |-> "returned", success |-> FALSE, user_id |-> req[t].user_id,
            category |-> req[t].category,
            group_id |-> group_id(req[t].user_id, req[t].category),
            error |-> "add_episode"]

EpisodeOk(t) ==
    /\ UNCHANGED fnVars
    /\ pc[t] = "episode" /\ loop = NoTask
    /\ LET g == group_id(req[t].user_id, req[t].category) IN
         \E w \in EpisodeWrites(g) :
            /\ episodes' = episodes \cup {g}
            /\ entities' = w.ents
            /\ rels' = IF w.rel = << >> THEN rels ELSE rels \cup {w.rel}
            /\ creators' = creators \cup {<<req[t].user_id, g>>}
    /\ Finish(t, AddKnowledgeResult(t, TRUE))
    /\ UNCHANGED <<indices_built, buildCalls, requests, lmVars>>

\* client.add_episode raised inside the try block: captured as data.
EpisodeFail(t) ==
    /\ UNCHANGED fnVars
    /\ pc[t] = "episode" /\ loop = NoTask
    /\ Finish(t, AddKnowledgeResult(t, FALSE))
    /\ UNCHANGED <<kgVars, requests, lmVars>>

\* ------------------------------------------------------ search_knowledge
\* query_rag and get_graph_visualization take the user from the session:
\* str(current_user.id) with id an int, so digits only.
SessionUserIds == { u \in UserIds : \A i \in DOMAIN u : u[i] # "_" }

\* search_knowledge up to its first await: with a category the single
\* namespace is searched, without one the user's namespaces are enumerated.
StartSearch(t, op, u, c) ==
    /\ IF c # NoCategory
         THEN /\ Accept(t, op, u, c, "search")
              /\ group_ids' = [group_ids EXCEPT ![t] = {search_group_id(u, c)}]
              /\ searchCalls' = [searchCalls EXCEPT ![t] = @ + 1]
         ELSE /\ Accept(t, op, u, c, "enum")
              /\ UNCHANGED <<group_ids, searchCalls>>
    /\ UNCHANGED <<kgVars, nodes, response, loop, lmVars>>

SearchKnowledgeBegin(t) ==
    /\ UNCHANGED fnVars
    /\ CanBegin(t)
    /\ \E u \in UserIds, c \in Categories \cup {NoCategory} :
         StartSearch(t, "search_knowledge", u, c)

QueryRagBegin(t) ==
    /\ UNCHANGED fnVars
    /\ CanBegin(t)
    /\ \E u \in SessionUserIds, c \in Categories \cup {NoCategory} :
         StartSearch(t, "query_rag", u, c)

\* query_rag, from the return of search_knowledge to the call of the model:
\* facts default to the empty list, their statements are joined with ". ",
\* an empty join is replaced by the sentinel.
RECURSIVE Join(_)
Join(facts) ==
    IF facts = << >> THEN ""
    ELSE IF Len(facts) = 1 THEN facts[1].fact
    ELSE facts[1].fact \o ". " \o Join(Tail(facts))

NoFactsSentinel == "No relevant facts found in memory."

RetrievedFacts(rec) == IF "facts" \in DOMAIN rec THEN rec.facts ELSE << >>

ContextOf(facts) == IF Join(facts) = "" THEN NoFactsSentinel ELSE Join(facts)

\* search_knowledge returns rec.  A direct caller gets it; query_rag goes on,
\* without suspending, into rag_module(...) and so into GroqSafeLM.__call__.
SearchReturn(t, rec, engine) ==
    IF req[t].op = "search_knowledge"
      THEN /\ FinishWith(t, rec, engine)
           /\ UNCHANGED lmVars
      ELSE /\ pc' = [pc EXCEPT ![t] = "lm_attempt"]
           /\ search_result' = rec
           /\ context_str' = ContextOf(RetrievedFacts(rec))
           /\ loop' = t
           /\ attempt' = 0
           /\ delay' = InitialDelay
           /\ lmCalls' = 0
           /\ sleeps' = << >>
           /\ outcomes' = << >>
           /\ lmResult' = "none"
           /\ UNCHANGED <<req, group_ids, searchCalls, nodes, response>>

\* (mutant: the empty list is searched like any other)
NoGroupIds_Never(gs) == FALSE

\* `if not group_ids`
NoGroupIds(gs) == gs = {}

EmptyResult == [status |-> "returned", success |-> TRUE, group_ids |-> {},
                num_results |-> 0, facts |-> << >>]

\* _get_group_ids_for_user returned: an empty list ends the search at once,
\* anything else goes to client.search.
EnumOk(t) ==
    /\ UNCHANGED fnVars
    /\ pc[t] = "enum" /\ loop = NoTask
    /\ LET gs == EnumerateGroupIds(req[t].user_id) IN
         IF NoGroupIds(gs)
           THEN SearchReturn(t, EmptyResult, "none")
           ELSE /\ group_ids' = [group_ids EXCEPT ![t] = gs]
                /\ searchCalls' = [searchCalls EXCEPT ![t] = @ + 1]
                /\ pc' = [pc EXCEPT ![t] = "search"]
                /\ UNCHANGED <<req, nodes, response, loop, lmVars>>
    /\ UNCHANGED <<kgVars, requests>>

\* _get_group_ids_for_user raised: search_knowledge awaits it outside its
\* try block, and query_rag's except clause turns it into HTTP 500.
EnumFail(t) ==
    /\ UNCHANGED fnVars
    /\ pc[t] = "enum" /\ loop = NoTask
    /\ Finish(t, IF req[t].op = "query_rag"
                   THEN [status |-> "raised", error |-> "HTTP 500", cause |-> "execute_query"]
                   ELSE Raised("execute_query"))
    /\ UNCHANGED <<kgVars, requests, lmVars>>

\* What client.search may return: a list of edges or an object whose `edges`
\* holds them; any other object has no `edges` and reads as [].  A record of
\* the engine may lack an attribute the loop reads (malformed).
EngineEdges == UNION { [1..n -> [fact : Statements]] : n \in 0..MaxFacts }

EngineResults ==
    [shape : {"list", "edges"}, edges : EngineEdges, malformed : BOOLEAN]
    \cup [shape : {"other"}, edges : {<< >>}, malformed : {FALSE}]

EdgesOf(results) == IF results.shape \in {"list", "edges"} THEN results.edges ELSE << >>

\* (mutant: the failure is re-raised instead of returned)
SearchFailure_Raises(gs) == [status |-> "raised", error |-> "search"]

\* the except clause of search_knowledge
SearchFailure(gs) ==
    [status |-> "returned", success |-> FALSE, group_id |-> gs, error |-> "search"]

\* The loop over the edges: reading an attribute a record lacks raises, and
\* the except clause captures that like a failure of the search itself.
Normalize(gs, results) ==
    IF results.malformed /\ EdgesOf(results) # << >>
      THEN SearchFailure(gs)
      ELSE [status |-> "returned", success |-> TRUE, group_id |-> gs,
            num_results |-> Len(EdgesOf(results)),
            facts |-> [i \in DOMAIN EdgesOf(results) |-> [fact |-> EdgesOf(results)[i].fact]]]

\* How the try block ends for what client.search returned.
SearchOutcome(gs, results) ==
    [rec |-> Normalize(gs, results),
     engine |-> IF results.malformed /\ EdgesOf(results) # << >> THEN "failed" ELSE "ok"]

SearchOk(t) ==
    /\ UNCHANGED fnVars
    /\ pc[t] = "search" /\ loop = NoTask
    /\ \E o \in { SearchOutcome(group_ids[t], results) : results \in EngineResults } :
         SearchReturn(t, o.rec, o.engine)
    /\ UNCHANGED <<kgVars, requests>>

SearchFail(t) ==
    /\ UNCHANGED fnVars
    /\ pc[t] = "search" /\ loop = NoTask
    /\ SearchReturn(t, SearchFailure(group_ids[t]), "failed")
    /\ UNCHANGED <<kgVars, requests>>

\* ------------------------------------------------------ GroqSafeLM.__call__
\* (mutant: one attempt too many)
MoreAttempts_OneMore(a) == a <= retries

\* `for attempt in range(retries)`
MoreAttempts(a) == a < retries

\* (mutant: every exception is caught and retried)
IsRateLimit_AnyError(o) == o # "ok"

\* `except RateLimitError`
IsRateLimit(o) == o = "rate_limit"

\* (mutant: no backoff)
NextDelay_Constant(d) == d

\* `delay *= 2`
NextDelay(d) == d * 2

\* One pass of the for loop up to the upstream call's outcome.  A rate limit
\* enters time.sleep(delay); any other exception is not caught.
LMAttempt(t) ==
    /\ UNCHANGED fnVars
    /\ pc[t] = "lm_attempt" /\ loop = t
    /\ \E o \in {"ok", "rate_limit", "error"} :
         /\ lmCalls' = lmCalls + 1
         /\ outcomes' = Append(outcomes, o)
         /\ IF o # "ok" /\ IsRateLimit(o)
              THEN /\ sleeps' = Append(sleeps, delay)
                   /\ pc' = [pc EXCEPT ![t] = "lm_sleep"]
                   /\ UNCHANGED lmResult
              ELSE /\ lmResult' = IF o = "ok" THEN "returned" ELSE "propagated"
                   /\ pc' = [pc EXCEPT ![t] = "lm_done"]
                   /\ UNCHANGED sleeps
    /\ UNCHANGED <<kgVars, requests, req, group_ids, searchCalls, nodes, response,
                   loop, search_result, context_str, attempt, delay>>

\* time.sleep returned: delay *= 2, next attempt; after the last one the
\* loop falls through to the terminal raise.
LMWake(t) ==
    /\ UNCHANGED fnVars
    /\ pc[t] = "lm_sleep" /\ loop = t
    /\ delay' = NextDelay(delay)
    /\ attempt' = attempt + 1
    /\ IF MoreAttempts(attempt + 1)
         THEN /\ pc' = [pc EXCEPT ![t] = "lm_attempt"]
              /\ UNCHANGED lmResult
         ELSE /\ pc' = [pc EXCEPT ![t] = "lm_done"]
              /\ lmResult' = "terminal"
    /\ UNCHANGED <<kgVars, requests, req, group_ids, searchCalls, nodes, response,
                   loop, search_result, context_str, lmCalls, sleeps, outcomes>>

\* GraphRAGModule.forward after the predictor: it reads prediction.response,
\* a field GraphRAGSignature does not declare (the output field is `answer`),
\* so a successful model call ends in AttributeError.  query_rag's except
\* clause turns every exception into HTTP 500.  The frames are left.
QueryRagFinish(t) ==
    /\ UNCHANGED fnVars
    /\ pc[t] = "lm_done" /\ loop = t
    /\ Finish(t, [status |-> "raised", error |-> "HTTP 500",
                  cause |-> IF lmResult = "returned" THEN "AttributeError"
                            ELSE lmResult])
    /\ search_result' = NoRecord
    /\ context_str' = ""
    /\ attempt' = 0
    /\ delay' = InitialDelay
    /\ lmCalls' = 0
    /\ sleeps' = << >>
    /\ outcomes' = << >>
    /\ lmResult' = "none"
    /\ UNCHANGED <<kgVars, requests>>

\* ------------------------------------------------ get_graph_visualization
VisualizeBegin(t) ==
    /\ UNCHANGED fnVars
    /\ CanBegin(t)
    /\ \E u \in SessionUserIds, c \in Categories \cup {NoCategory} :
         Accept(t, "visualize", u, c, "ex_nodes")
    /\ UNCHANGED <<kgVars, group_ids, searchCalls, nodes, response, loop, lmVars>>

\* WHERE n.group_id = $group_id   |   WHERE n.group_id STARTS WITH $prefix
NodeInScope(g, u, c) ==
    IF c # NoCategory THEN g = export_group_id(u, c) ELSE StartsWith(g, prefix(u))

\* (mutant: without `AND s.group_id = t.group_id`)
EdgeInScope_AnyPair(gs, gt, u, c) ==
    IF c # NoCategory
      THEN gs = export_group_id(u, c) /\ gt = export_group_id(u, c)
      ELSE StartsWith(gs, prefix(u)) /\ StartsWith(gt, prefix(u))

\* WHERE s.group_id = $group_id AND t.group_id = $group_id   |
\* WHERE both STARTS WITH $prefix AND s.group_id = t.group_id
EdgeInScope(gs, gt, u, c) ==
    IF c # NoCategory
      THEN gs = export_group_id(u, c) /\ gt = export_group_id(u, c)
      ELSE StartsWith(gs, prefix(u)) /\ StartsWith(gt, prefix(u)) /\ gs = gt

\* The nodes query returned and its records are read.  The label expression
\* data['name'] or data['title'] or ... reads a key the query does not return
\* as soon as a name is falsy: KeyError, which nothing catches.
ExportNodes(t) ==
    /\ UNCHANGED fnVars
    /\ pc[t] = "ex_nodes" /\ loop = NoTask
    /\ LET scope == { i \in DOMAIN entities :
                        NodeInScope(entities[i].group_id, req[t].user_id, req[t].category) }
       IN IF \E i \in scope : entities[i].name = ""
            THEN Finish(t, Raised("KeyError: 'title'"))
            ELSE /\ nodes' = [nodes EXCEPT ![t] =
                                { [id |-> i, label |-> entities[i].name] : i \in scope }]
                 /\ pc' = [pc EXCEPT ![t] = "ex_edges"]
                 /\ UNCHANGED <<req, group_ids, searchCalls, response, loop>>
    /\ UNCHANGED <<kgVars, requests, lmVars>>

\* The edges query returned: the response is built.
ExportEdges(t) ==
    /\ UNCHANGED fnVars
    /\ pc[t] = "ex_edges" /\ loop = NoTask
    /\ Finish(t, [status |-> "returned", nodes |-> nodes[t],
                  edges |-> { [source |-> r[1], target |-> r[2]] :
                              r \in { e \in rels :
                                       EdgeInScope(entities[e[1]].group_id,
                                                   entities[e[2]].group_id,
                                                   req[t].user_id, req[t].category) } }])
    /\ UNCHANGED <<kgVars, requests, lmVars>>

\* session.run raised in either query: nothing catches it.
ExportFail(t) ==
    /\ UNCHANGED fnVars
    /\ pc[t] \in {"ex_nodes", "ex_edges"} /\ loop = NoTask
    /\ Finish(t, Raised("session.run"))
    /\ UNCHANGED <<kgVars, requests, lmVars>>

\* ------------------------------------------------------- _clean_response
Chars == {"<", ">", " ", "\n", "a"}

RawTexts == UNION { [1..n -> Chars] : n \in 0..MaxTextLen }

\* str.split() and str.strip() without arguments: whitespace
IsSpace(c) == c \in {" ", "\n"}

\* Where `<.*?>` matched from a '<' at s[1] ends: at the first '>' after it,
\* provided no newline lies between ('.' does not match a newline; the
\* pattern is compiled without re.DOTALL).  0: no match here.
TagEnd(s) ==
    LET closes == { j \in 2..Len(s) : s[j] = ">" }
        j == IF closes = {} THEN 0
             ELSE CHOOSE k \in closes : \A m \in closes : k <= m
    IN IF j # 0 /\ \A k \in 2..(j - 1) : s[k] # "\n" THEN j ELSE 0

\* re.sub(r'<.*?>', '', text): leftmost non-overlapping matches, left to right
RECURSIVE SubTags(_)
SubTags(s) ==
    IF s = << >> THEN << >>
    ELSE IF Head(s) = "<" /\ TagEnd(s) # 0
           THEN SubTags(SubSeq(s, TagEnd(s) + 1, Len(s)))
           ELSE <<Head(s)>> \o SubTags(Tail(s))

\* Length of the longest prefix of s without whitespace
RECURSIVE WordLen(_)
WordLen(s) ==
    IF s = << >> \/ IsSpace(Head(s)) THEN 0 ELSE 1 + WordLen(Tail(s))

\* text.split(): the maximal runs of non-whitespace, in order
RECURSIVE Split(_)
Split(s) ==
    IF s = << >> THEN << >>
    ELSE IF IsSpace(Head(s)) THEN Split(Tail(s))
    ELSE <<SubSeq(s, 1, WordLen(s))>> \o Split(SubSeq(s, WordLen(s) + 1, Len(s)))

\* ' '.join(words)
RECURSIVE JoinWords(_)
JoinWords(ws) ==
    IF ws = << >> THEN << >>
    ELSE IF Len(ws) = 1 THEN ws[1]
    ELSE ws[1] \o <<" ">> \o JoinWords(Tail(ws))

\* text.strip()
RECURSIVE Strip(_)
Strip(s) ==
    IF s = << >> THEN << >>
    ELSE IF IsSpace(Head(s)) THEN Strip(Tail(s))
    ELSE IF IsSpace(s[Len(s)]) THEN Strip(SubSeq(s, 1, Len(s) - 1))
    ELSE s

\* _clean_response as one function
clean_response(s) == Strip(JoinWords(Split(SubTags(s))))

\* text = re.sub(r'<.*?>', '', text)
CleanSub ==
    /\ cleanPc = "sub"
    /\ text' = SubTags(text)
    /\ cleanPc' = "split"
    /\ UNCHANGED <<svcVars, raw, pairs, derived>>

\* text = ' '.join(text.split())
CleanSplitJoin ==
    /\ cleanPc = "split"
    /\ text' = JoinWords(Split(text))
    /\ cleanPc' = "strip"
    /\ UNCHANGED <<svcVars, raw, pairs, derived>>

\* text = text.strip(); return text
CleanStrip ==
    /\ cleanPc = "strip"
    /\ text' = Strip(text)
    /\ cleanPc' = "return"
    /\ UNCHANGED <<svcVars, raw, pairs, derived>>

\* ------------------------------------------------- namespace derivation
\* User ids and categories without the separator '_'.
IdChars == {"1", "a"}

IdStrings == UNION { [1..n -> IdChars] : n \in 1..MaxIdLen }

KeyPairs == IdStrings \X IdStrings

\* The key a site builds for the pair p = <<user_id, category>>.
KeyAt(site, p) ==
    CASE site = "add_knowledge"           -> group_id(p[1], p[2])
      [] site = "search_knowledge"        -> search_group_id(p[1], p[2])
      [] site = "get_graph_visualization" -> export_group_id(p[1], p[2])

\* One site builds the keys of the two pairs under study.
DeriveKeys(site) ==
    /\ pairs # << >>
    /\ derived[site] = << >>
    /\ derived' = [derived EXCEPT ![site] = <<KeyAt(site, pairs[1]), KeyAt(site, pairs[2])>>]
    /\ UNCHANGED <<svcVars, raw, text, cleanPc, pairs>>

AddKnowledgeKey == DeriveKeys("add_knowledge")

SearchKey == DeriveKeys("search_knowledge")

ExportKey == DeriveKeys("get_graph_visualization")

\* ------------------------------------------------------------------ Next
IngestStep(t) ==
    \/ InitializeBegin(t)
    \/ AddKnowledgeBegin(t)
    \/ BuildOk(t)
    \/ BuildFail(t)
    \/ EpisodeOk(t)
    \/ EpisodeFail(t)

SearchStep(t) ==
    \/ SearchKnowledgeBegin(t)
    \/ EnumOk(t)
    \/ EnumFail(t)
    \/ SearchOk(t)
    \/ SearchFail(t)

QueryStep(t) ==
    \/ QueryRagBegin(t)
    \/ LMAttempt(t)
    \/ LMWake(t)
    \/ QueryRagFinish(t)

ExportStep(t) ==
    \/ VisualizeBegin(t)
    \/ ExportNodes(t)
    \/ ExportEdges(t)
    \/ ExportFail(t)

\* The whole service.
Next ==
    \E t \in Tasks :
        IngestStep(t) \/ SearchStep(t) \/ QueryStep(t) \/ ExportStep(t) \/ Respond(t)

Spec == Init /\ [][Next]_vars

\* The service taking only initialize and add_knowledge calls.
NextIngest == \E t \in Tasks : IngestStep(t) \/ Respond(t)

SpecIngest == Init /\ [][NextIngest]_vars

\* Ingestion and direct retrieval.
NextSearch == \E t \in Tasks : IngestStep(t) \/ SearchStep(t) \/ Respond(t)

SpecSearch == Init /\ [][NextSearch]_vars

\* Retrieval and the query handler with its model call.
NextQuery == \E t \in Tasks : SearchStep(t) \/ QueryStep(t) \/ Respond(t)

SpecQuery == Init /\ [][NextQuery]_vars

\* Ingestion and graph export.
NextExport == \E t \in Tasks : IngestStep(t) \/ ExportStep(t) \/ Respond(t)

SpecExport == Init /\ [][NextExport]_vars

\* _clean_response called on any raw text.
InitClean ==
    /\ ServiceInit
    /\ raw \in RawTexts
    /\ text = raw
    /\ cleanPc = "sub"
    /\ pairs = << >>
    /\ derived = [s \in Sites |-> << >>]

NextClean == CleanSub \/ CleanSplitJoin \/ CleanStrip

SpecClean == InitClean /\ [][NextClean]_vars

\* The key derivations of ingestion, single-category search and
\* single-category export, for any two pairs.
InitKeys ==
    /\ ServiceInit
    /\ raw = << >>
    /\ text = << >>
    /\ cleanPc = "off"
    /\ pairs \in KeyPairs \X KeyPairs
    /\ derived = [s \in Sites |-> << >>]

NextKeys == AddKnowledgeKey \/ SearchKey \/ ExportKey

SpecKeys == InitKeys /\ [][NextKeys]_vars

\* ================================================================ claims
Fields(r) == DOMAIN r

\* C1: every add_knowledge call ends by returning an Ingestion Result; when a
\* graph-engine call it made failed (index/constraint setup or episode
\* submission) the result carries success = FALSE, user_id, category,
\* group_id and error, and nothing is raised to the caller.
C1_AddKnowledgeNeverRaises ==
    response.req.op = "add_knowledge" =>
        /\ response.result.status = "returned"
        /\ {"success", "user_id", "category", "group_id"} \subseteq Fields(response.result)
        /\ response.result.user_id = response.req.user_id
        /\ response.result.category = response.req.category
        /\ ~response.result.success => "error" \in Fields(response.result)

\* C2: build_indices_and_constraints is invoked at most once, whatever the
\* interleaving of initialize and add_knowledge calls.
C2_SetupAtMostOnce == buildCalls <= 1

\* C3: when search_knowledge without a category hands its namespaces to the
\* engine's search, they are exactly the namespaces that ingestions of that
\* same user created, and none that an ingestion of another user created.
CreatedBy(u) == { g \in NodeGroupIds : <<u, g>> \in creators }

C3_TenantIsolation ==
    [][\A t \in Tasks :
          (pc[t] = "enum" /\ pc'[t] = "search") =>
              /\ group_ids'[t] = CreatedBy(req[t].user_id)
              /\ \A u \in UserIds \ {req[t].user_id} :
                    group_ids'[t] \cap CreatedBy(u) = {}]_vars

\* C4: while one task sleeps between two rate-limited attempts, every other
\* task that has a request in flight can still take a step.
TaskStep(t) ==
    IngestStep(t) \/ SearchStep(t) \/ QueryStep(t) \/ ExportStep(t) \/ Respond(t)

C4_SleepBlocksOnlyCaller ==
    \A t \in Tasks :
        pc[t] = "lm_sleep" =>
            \A o \in Tasks \ {t} : pc[o] # "idle" => ENABLED TaskStep(o)

\* The wrapper call in progress or just ended, if any.
InWrapper == \E t \in Tasks : pc[t] \in {"lm_attempt", "lm_sleep", "lm_done"}

AllRateLimited == \A i \in DOMAIN outcomes : outcomes[i] = "rate_limit"

\* C5: an upstream call that is rate-limited exactly twice and then succeeds:
\* the wrapper returns that result after exactly three upstream calls and
\* exactly two sleeps, of d and then 2d seconds.
C5_TwoRateLimitsThenSuccess ==
    outcomes = <<"rate_limit", "rate_limit", "ok">> =>
        /\ lmResult = "returned"
        /\ lmCalls = 3
        /\ sleeps = <<InitialDelay, 2 * InitialDelay>>
        /\ \E t \in Tasks : pc[t] = "lm_done"

C5_Witness ==
    /\ outcomes = <<"rate_limit", "rate_limit", "ok">>
    /\ lmResult = "returned"

\* C6: an upstream call that is always rate-limited: the wrapper makes
\* exactly 5 upstream calls, never one more, and ends by raising the terminal
\* failure; it raises it in no other case and returns no value.
C6_Exhaustion ==
    /\ lmCalls <= 5
    /\ lmCalls = Len(outcomes)
    /\ (AllRateLimited /\ Len(outcomes) = 5) =>
          /\ lmResult \in {"none", "terminal"}
          /\ \A t \in Tasks : pc[t] # "lm_attempt"
          /\ \A t \in Tasks : pc[t] = "lm_done" => lmResult = "terminal"
          /\ \A t \in Tasks : pc[t] = "lm_sleep" => ENABLED LMWake(t)
    /\ lmResult = "terminal" => (AllRateLimited /\ lmCalls = 5)
    /\ lmResult = "returned" => ~AllRateLimited

C6_Witness == lmResult = "terminal" /\ \E t \in Tasks : pc[t] = "lm_done"

\* C7: an upstream error that is not a rate limit ends the wrapper call at
\* once: it is the last upstream call, the error propagates, and no sleep
\* follows it, however many rate-limited attempts came before.
C7_OtherErrorsPropagate ==
    \A i \in DOMAIN outcomes :
        outcomes[i] = "error" =>
            /\ i = Len(outcomes)
            /\ lmCalls = i
            /\ lmResult = "propagated"
            /\ Len(sleeps) = i - 1
            /\ \E t \in Tasks : pc[t] = "lm_done"

C7_Witness ==
    /\ Len(outcomes) >= 3
    /\ outcomes[Len(outcomes)] = "error"
    /\ lmResult = "propagated"

\* C8: search_knowledge without a category, for a user whose enumeration
\* yields no namespace, returns success with num_results 0 and no facts, and
\* client.search is not called: no search is ever issued over an empty
\* namespace list.
C8_EmptyScopeNoEngineCall ==
    /\ \A t \in Tasks : pc[t] = "search" => group_ids[t] # {}
    /\ (/\ response.req.op = "search_knowledge"
        /\ response.req.category = NoCategory
        /\ response.result.status = "returned"
        /\ response.group_ids = {}) =>
            /\ response.result.success
            /\ response.result.num_results = 0
            /\ response.result.facts = << >>
            /\ response.searchCalls = 0
            /\ response.engine = "none"

C8_Witness ==
    /\ response.req.op = "search_knowledge"
    /\ response.req.category = NoCategory
    /\ response.result.status = "returned"
    /\ response.group_ids = {}
    /\ episodes # {}

\* C9: when client.search or the normalization of its records fails,
\* search_knowledge returns success = FALSE with its namespaces and an error,
\* without facts, and raises nothing; query_rag goes on from such a result to
\* the model call with no facts, that is with the sentinel context.
SearchFailed(rec) == "success" \in Fields(rec) /\ ~rec.success

C9_SearchFailureIsData ==
    /\ (response.req.op = "search_knowledge" /\ response.engine = "failed") =>
          /\ response.result.status = "returned"
          /\ SearchFailed(response.result)
          /\ response.result.group_id = response.group_ids
          /\ "error" \in Fields(response.result)
          /\ "facts" \notin Fields(response.result)
    /\ \A t \in Tasks :
          (pc[t] = "search" /\ req[t].op = "query_rag" /\ loop = NoTask) =>
              ENABLED (SearchFail(t) /\ pc'[t] = "lm_attempt")
    /\ (InWrapper /\ SearchFailed(search_result)) =>
          /\ RetrievedFacts(search_result) = << >>
          /\ context_str = NoFactsSentinel

C9_Witness ==
    /\ \E t \in Tasks : pc[t] = "lm_attempt"
    /\ SearchFailed(search_result)
    /\ context_str = NoFactsSentinel

\* C10: every edge an export returns has both endpoints in the requesting
\* user's scoped namespaces and both in one and the same namespace, with or
\* without a category.
ScopedNamespaces(u, c) ==
    IF c # NoCategory THEN {group_id(u, c)} ELSE EnumerateGroupIds(u)

C10_NoCrossNamespaceEdge ==
    (response.req.op = "visualize" /\ response.result.status = "returned") =>
        \A e \in response.result.edges :
            LET gs == entities[e.source].group_id
                gt == entities[e.target].group_id
            IN /\ gs \in ScopedNamespaces(response.req.user_id, response.req.category)
               /\ gt \in ScopedNamespaces(response.req.user_id, response.req.category)
               /\ gs = gt

\* An export without category returned while the engine held a relationship
\* between two of the user's namespaces.
C10_Witness ==
    /\ response.req.op = "visualize" /\ response.result.status = "returned"
    /\ response.req.category = NoCategory
    /\ \E r \in rels :
          /\ entities[r[1]].group_id # entities[r[2]].group_id
          /\ {entities[r[1]].group_id, entities[r[2]].group_id}
                \subseteq ScopedNamespaces(response.req.user_id, NoCategory)

\* C11: an export fails only when an engine query fails; every node it emits
\* carries a label, and an entity in scope without a name (and without title
\* or identifier) is emitted with a label instead of failing the export.
C11_ExportLabels ==
    response.req.op = "visualize" =>
        /\ response.result.status = "raised" => response.result.error = "session.run"
        /\ response.result.status = "returned" =>
              \A n \in response.result.nodes : n.label # ""

\* C13: once the model call has ended, a call that succeeded is answered with
\* a returned response, and an error is surfaced only when the model call
\* itself failed.
C13_SuccessIsAnswered ==
    \A t \in Tasks :
        pc[t] = "lm_done" =>
            /\ lmResult = "returned" =>
                  ENABLED (QueryRagFinish(t) /\ response'.result.status = "returned")
            /\ ENABLED (QueryRagFinish(t) /\ response'.result.status = "raised") =>
                  lmResult \in {"terminal", "propagated"}

\* C14: while the model is called, the context is the join of the retrieved
\* facts' statements, in order, when at least one fact was retrieved, and it
\* is the sentinel if and only if no fact was retrieved.
C14_ContextFromFacts ==
    InWrapper =>
        /\ RetrievedFacts(search_result) # << >> =>
              context_str = Join(RetrievedFacts(search_result))
        /\ context_str = NoFactsSentinel <=> RetrievedFacts(search_result) = << >>

\* C16: in every export result each edge's source and target are identifiers
\* of nodes of the same result, whatever ingestions ran between the export's
\* two engine queries.
C16_EdgesReferenceEmittedNodes ==
    (response.req.op = "visualize" /\ response.result.status = "returned") =>
        \A e \in response.result.edges :
            /\ e.source \in { n.id : n \in response.result.nodes }
            /\ e.target \in { n.id : n \in response.result.nodes }

\* C12: what _clean_response returns contains no '<' followed later by a
\* '>', no two adjacent whitespace characters and no leading or trailing
\* whitespace, and cleaning it again leaves it unchanged.
NoTagLike(s) == ~ \E i, j \in DOMAIN s : i < j /\ s[i] = "<" /\ s[j] = ">"

NoSpaceRun(s) == ~ \E i \in 1..(Len(s) - 1) : IsSpace(s[i]) /\ IsSpace(s[i + 1])

Trimmed(s) == s # << >> => (~IsSpace(s[1]) /\ ~IsSpace(s[Len(s)]))

C12_CleanedText ==
    cleanPc = "return" =>
        /\ NoTagLike(text)
        /\ NoSpaceRun(text)
        /\ Trimmed(text)
        /\ clean_response(text) = text

\* C15: for two pairs of non-empty user id and category without '_', every
\* site derives one and the same key for the same pair, and the keys of two
\* distinct pairs differ, whichever sites derived them.
C15_NamespaceInjective ==
    \A s1, s2 \in Sites :
        (derived[s1] # << >> /\ derived[s2] # << >>) =>
            /\ derived[s1][1] = derived[s2][1]
            /\ derived[s1][2] = derived[s2][2]
            /\ pairs[1] # pairs[2] => derived[s1][1] # derived[s2][2]

\* All three sites have derived the keys of two pairs that differ only in
\* where the characters fall between user id and category.
C15_Witness ==
    /\ \A s \in Sites : derived[s] # << >>
    /\ pairs[1] # pairs[2]
    /\ pairs[1][1] \o pairs[1][2] = pairs[2][1] \o pairs[2][2]

====
